---- MODULE Spec2Model ----
(***************************************************************************)
(* Model of the audit ledger of the cloud-mining console:                  *)
(*   - LoggerService (src/services/logger.ts): getLogs, log, clearLogs     *)
(*     over the single localStorage key 'cloudmine_audit_ledger';          *)
(*   - AuditLogView (src/unnamed/part_000): the view's `logs` snapshot,    *)
(*     its 'audit-log-updated' listener and handleClear.                   *)
(*                                                                         *)
(* A stored string is modelled by what JSON.parse makes of it, a value in  *)
(* memory by its shape; JSON.stringify and JSON.parse are modelled by what *)
(* they do to entries and metadata, exceptions included.                   *)
(***************************************************************************)
EXTENDS Integers, Sequences, FiniteSets, TLC

(* ---------------------------------------------------------------- bounds *)

\* handler calls explored per behaviour of Spec
MaxCalls == 2
\* log calls explored per behaviour of SpecFlows
MaxFlowCalls == 4
\* distinct values Math.random() can yield for an id
MaxIds == 2
\* appends explored per behaviour of SpecAppend: two past the capacity
MaxAppends == 502

\* setInterval calls of the live-ledger effect in one session
MaxTimers == 3

\* log calls of the App's handlers in one session
MaxAppCalls == 6

\* Stripe payments submitted and withdrawals confirmed in one session
MaxPayments == 2
MaxWithdrawals == 2

\* handleSelectKey calls and Gemini requests that can be in flight together
MaxSelects == 2
MaxRequests == 2

\* speakText calls in one session
MaxSpeaks == 3

(* ------------------------------------------------------------- constants *)

\* .slice(0, 500): the ledger's capacity
MAX_LOGS == 500


\* Date.now() when the session starts; entries persisted by an earlier
\* session are older
StartTime == MAX_LOGS

\* Math.random().toString(36).substr(2, 9): two values are enough for two
\* calls to draw equal or different ids
Ids == {1, 2}

\* entries per page of the audit view
PAGE_SIZE == 20

\* useState<number>(5420.55) of globalBalance, in cents
INITIAL_BALANCE == 542055

\* the withdrawal limits, in cents
DAILY_LIMIT == 500000
TRANSACTION_LIMIT == 200000

\* 24 * 60 * 60 * 1000 ms
DAY == 86400000

\* Date.now() between two calls: the same millisecond, a later one, or an
\* earlier one (the wall clock can be set back)
Ticks == {-1, 0, 1}

(* ------------------------------------------------------------ data model *)

LogCategory == {"SYSTEM", "FINANCIAL", "SECURITY", "OPERATION", "AI", "MARKETPLACE"}

\* metadata?: Record<string, any>, by what JSON.stringify does to it:
\*   "undefined"  no metadata argument
\*   "plain"      an object of strings and finite numbers
\*   "error"      { error: err } with err an Error: serialises to {"error":{}}
\*   "circular"   an object that references itself: JSON.stringify throws
\*   "stripped"   what "error" reads back as after a JSON round trip
MemoryMetadata == {"undefined", "plain", "error", "circular"}

AuditLog(id, timestamp, category, action, metadata) ==
    [t |-> "entry", id |-> id, timestamp |-> timestamp, category |-> category,
     action |-> action, metadata |-> metadata]

\* no entry (an absent event detail, an empty head)
NoLog == [t |-> "none"]

\* an array element that is not an audit entry (a character, a number)
Junk == [t |-> "junk"]

\* values in memory and parsed JSON texts, by shape
Value(t, items) == [t |-> t, items |-> items]
EmptyArray == Value("array", <<>>)

\* the contents of localStorage under STORAGE_KEY
NoItem == Value("absent", <<>>)          \* getItem returns null
EmptyString == Value("empty", <<>>)      \* ""
InvalidJson == Value("invalid", <<>>)    \* "{not json"
JsonNull == Value("null", <<>>)          \* "null"
JsonObject == Value("object", <<>>)      \* "{}", "42", "true"
JsonString == Value("string", <<Junk, Junk>>)   \* "\"ab\""
JsonJunkArray == Value("array", <<Junk>>)       \* "[1]"

Take(s, n) == IF Len(s) <= n THEN s ELSE SubSeq(s, 1, n)

(* ------------------------------------------------------------- JSON *)

\* JSON.stringify of one metadata value, as read back by JSON.parse
StringifyMetadata(m) ==
    CASE m = "error" -> "stripped"
      [] OTHER -> m

StringifyThrows(items) ==
    \E i \in 1..Len(items) : items[i].t = "entry" /\ items[i].metadata = "circular"

StringifyItem(x) ==
    IF x.t = "entry"
    THEN [x EXCEPT !.metadata = StringifyMetadata(x.metadata)]
    ELSE x

\* JSON.stringify(updatedLogs): the text, by what it parses to
JsonStringify(items) ==
    Value("array", [i \in 1..Len(items) |-> StringifyItem(items[i])])

\* JSON.parse(saved) throws on a text that is not JSON
JsonParseThrows(saved) == saved.t = "invalid"

\* for...of / spread accepts arrays and strings only
IsIterable(v) == v.t \in {"array", "string"}

(* ------------------------------------------------------------- strings *)

\* the characters of the strings the view searches and sorts
Chars ==
       ("SYSTEM" :> <<"S", "Y", "S", "T", "E", "M">>)
    @@ ("FINANCIAL" :> <<"F", "I", "N", "A", "N", "C", "I", "A", "L">>)
    @@ ("SECURITY" :> <<"S", "E", "C", "U", "R", "I", "T", "Y">>)
    @@ ("OPERATION" :> <<"O", "P", "E", "R", "A", "T", "I", "O", "N">>)
    @@ ("AI" :> <<"A", "I">>)
    @@ ("MARKETPLACE" :> <<"M", "A", "R", "K", "E", "T", "P", "L", "A", "C", "E">>)
    @@ ("apple" :> <<"a", "p", "p", "l", "e">>)
    @@ ("Pay" :> <<"P", "a", "y">>)
    @@ ("Zed" :> <<"Z", "e", "d">>)
    @@ ("secure" :> <<"s", "e", "c", "u", "r", "e">>)
    @@ ("sec" :> <<"s", "e", "c">>)
    @@ ("PAY" :> <<"P", "A", "Y">>)
    @@ ("err" :> <<"e", "r", "r">>)
    @@ ("" :> <<>>)

\* JSON.stringify(log.metadata), by metadata value
MetadataJson ==
       ("plain" :> <<"{", "\"", "a", "m", "o", "u", "n", "t", "\"", ":", "5", "}">>)
    @@ ("stripped" :> <<"{", "\"", "e", "r", "r", "o", "r", "\"", ":", "{", "}", "}">>)

UpperCase == <<"A", "B", "C", "D", "E", "F", "G", "H", "I", "J", "K", "L", "M", "N", "O", "P", "Q", "R", "S", "T", "U", "V", "W", "X", "Y", "Z">>
LowerCase == <<"a", "b", "c", "d", "e", "f", "g", "h", "i", "j", "k", "l", "m", "n", "o", "p", "q", "r", "s", "t", "u", "v", "w", "x", "y", "z">>

\* the lower-case letter of each upper-case letter
LowerOf ==
    [c \in {UpperCase[k] : k \in 1..26} |->
        LowerCase[CHOOSE k \in 1..26 : UpperCase[k] = c]]

\* String.prototype.toLowerCase, character by character
toLowerCase(text) ==
    [i \in 1..Len(text) |->
        IF text[i] \in DOMAIN LowerOf THEN LowerOf[text[i]] ELSE text[i]]

\* the UTF-16 code units of the letters: A is 65, a is 97
CharCodes ==
    [c \in {UpperCase[k] : k \in 1..26} \cup {LowerCase[k] : k \in 1..26} |->
        IF \E k \in 1..26 : UpperCase[k] = c
        THEN 64 + (CHOOSE k \in 1..26 : UpperCase[k] = c)
        ELSE 96 + (CHOOSE k \in 1..26 : LowerCase[k] = c)]

\* the UTF-16 code unit of a letter
CharCode(c) == CharCodes[c]

\* String.prototype.includes
includes(text, part) ==
    \E i \in 0..(Len(text) - Len(part)) : SubSeq(text, i + 1, i + Len(part)) = part

\* a < b on strings: the first differing code unit decides, a proper prefix
\* is smaller
RECURSIVE StringLess(_, _)
StringLess(a, b) ==
    IF b = <<>> THEN FALSE
    ELSE IF a = <<>> THEN TRUE
    ELSE IF a[1] = b[1] THEN StringLess(Tail(a), Tail(b))
    ELSE CharCode(a[1]) < CharCode(b[1])

\* a.toLowerCase() < b.toLowerCase(), for each pair of the strings above
LowerLess ==
    [a \in DOMAIN Chars |->
        [b \in DOMAIN Chars |-> StringLess(toLowerCase(Chars[a]), toLowerCase(Chars[b]))]]

(* ------------------------------------------------------------- state *)

VARIABLES
    storage,    \* localStorage[STORAGE_KEY]
    now,        \* Date.now()
    mounted,    \* AuditLogView is rendered and its listener registered
    logs,       \* AuditLogView's `logs` state
    calls,      \* handler calls made so far
    lastOp,     \* the handler that ran last
    newLog,     \* the entry the last log call created
    raised,     \* the last handler let an exception escape to its caller
    trace,      \* storage writes and notifications of the last handler, in order
    failure,    \* the persistence failure the last handler met: none, read, write
    filter,       \* AuditLogView's category filter
    searchQuery,  \* AuditLogView's search box
    sortConfig,   \* AuditLogView's sort key and direction
    isLiveLedger, \* AuditLogView's live-ledger simulator is on
    paymentStep,  \* how far StripeCheckout.handlePayment has got
    callOrder,    \* the entries of the log calls of the async flows, in call order
    currentPage,          \* AuditLogView's page
    backgroundLogsCount,  \* AuditLogView's "new traces inbound" counter
    liveTimerRef,  \* liveTimerRef.current: an interval id, 0 for null
    timers,        \* the ids of the intervals that are running
    timerSeq,      \* the id the last setInterval call returned
    globalBalance, \* App's simulated balance, in cents
    transactions,  \* App's transactions, newest first
    activeView,    \* App's activeView
    checkoutData,  \* App's checkoutData: the amount of the open checkout, 0 for null
    payments,      \* the handlePayment calls made so far: amount, step, cancelled
    amount,             \* WithdrawalPage's amount field, parsed, in cents
    walletAddress,      \* WithdrawalPage's destination field
    showConfirmModal,   \* WithdrawalPage's confirmation modal is open
    isProcessing,       \* WithdrawalPage's isProcessing
    whitelistedAddresses, \* WithdrawalPage's whitelist, kept in localStorage
    dailyUsage,         \* WithdrawalPage's memoised dailyUsage
    withdrawals,        \* the handleConfirmWithdraw calls made so far
    aistudio,        \* window.aistudio is present
    apiKeySelected,  \* App's apiKeySelected
    isCheckingKey,   \* App's isCheckingKey
    authCheck,       \* performInitialAuthCheck: pending, done or rejected
    selecting,       \* handleSelectKey calls awaiting openSelectKey()
    selectResult,    \* what the last selectApiKey call returned, "none" at first
    dialog,          \* how the last selectApiKey call met the dialog
    requests,        \* Gemini requests in flight
    authResets,      \* 'gemini-auth-reset' events dispatched so far
    activeSource,    \* GeminiService.activeSource: the speakText call whose source it is, 0 for null
    activeContext,   \* GeminiService.activeContext: the call that created it, 0 for null
    speaks,          \* the speakText calls made so far: message, step, stale
    speakingMsgTimestamp  \* AICommandCenter's speakingMsgTimestamp, 0 for null

viewVars == <<filter, searchQuery, sortConfig>>
flowVars == <<isLiveLedger, paymentStep, callOrder>>
pageVars == <<currentPage, backgroundLogsCount>>
timerVars == <<liveTimerRef, timers, timerSeq>>
appVars == <<globalBalance, transactions, activeView, checkoutData, payments>>
withdrawVars == <<amount, walletAddress, showConfirmModal, isProcessing,
                  whitelistedAddresses, dailyUsage, withdrawals>>
authVars == <<aistudio, apiKeySelected, isCheckingKey, authCheck, selecting,
              selectResult, dialog, requests, authResets>>
speechVars == <<activeSource, activeContext, speaks, speakingMsgTimestamp>>
sessionVars == <<authVars, speechVars>>
otherVars == <<appVars, withdrawVars, sessionVars>>

vars == <<storage, now, mounted, logs, calls, lastOp, newLog, raised, trace,
          failure, viewVars, flowVars, pageVars, timerVars, otherVars>>

\* one storage write or notification: what, the entry it carries (for setItem
\* the head of the list written), the length of the list written
Effect(e, entry, size) == [e |-> e, entry |-> entry, size |-> size]

HeadOrNone(items) == IF Len(items) = 0 THEN NoLog ELSE items[1]

(* ----------------------------------------------------- LoggerService *)

\* getLogs(): `saved ? JSON.parse(saved) : []`, [] when anything throws
getLogs(saved, readFails) ==
    IF readFails THEN EmptyArray
    ELSE IF saved.t \in {"absent", "empty"} THEN EmptyArray
    ELSE IF JsonParseThrows(saved) THEN EmptyArray
    ELSE saved

\* faulty variants of the list update: no truncation, appending at the tail,
\* truncating one short
updatedLogsNoSlice(entry, items) == <<entry>> \o items
updatedLogsAtTail(entry, items) == Take(items \o <<entry>>, MAX_LOGS)
updatedLogsOneShort(entry, items) == Take(<<entry>> \o items, MAX_LOGS - 1)

\* faulty variant: the new entry replaces the head, as a lost update would
updatedLogsLostUpdate(entry, items) ==
    Take(<<entry>> \o (IF items = <<>> THEN <<>> ELSE Tail(items)), MAX_LOGS)

\* faulty variant: the entries read are written back in reverse
updatedLogsReversed(entry, items) ==
    Take(<<entry>> \o [i \in 1..Len(items) |-> items[Len(items) + 1 - i]], MAX_LOGS)

\* [newLog, ...logs].slice(0, 500)
updatedLogs(entry, items) == Take(<<entry>> \o items, MAX_LOGS)

\* faulty variant of the try block: it persists the list it read, not the
\* updated one
logTryStale(saved, entry, readFails, writeFails) ==
    LET read == getLogs(saved, readFails)
        spreadThrows == ~IsIterable(read)
        updated == IF spreadThrows THEN <<>> ELSE updatedLogs(entry, read.items)
        threw == spreadThrows \/ StringifyThrows(updated) \/ writeFails
    IN  [storage |-> IF threw THEN saved ELSE JsonStringify(read.items),
         dispatched |-> ~threw,
         threw |-> threw]

\* faulty variant of the try block: the notification is sent even when a
\* statement before it threw
logTryAlwaysDispatch(saved, entry, readFails, writeFails) ==
    LET read == getLogs(saved, readFails)
        spreadThrows == ~IsIterable(read)
        updated == IF spreadThrows THEN <<>> ELSE updatedLogs(entry, read.items)
        threw == spreadThrows \/ StringifyThrows(updated) \/ writeFails
    IN  [storage |-> IF threw THEN saved ELSE JsonStringify(updated),
         dispatched |-> TRUE,
         threw |-> threw]

\* the try block of log(): what it leaves in storage, whether it reached
\* dispatchEvent, whether a statement of it threw
logTry(saved, entry, readFails, writeFails) ==
    LET read == getLogs(saved, readFails)
        spreadThrows == ~IsIterable(read)
        updated == IF spreadThrows THEN <<>> ELSE updatedLogs(entry, read.items)
        threw == spreadThrows \/ StringifyThrows(updated) \/ writeFails
    IN  [storage |-> IF threw THEN saved ELSE JsonStringify(updated),
         dispatched |-> ~threw,
         threw |-> threw]

\* faulty variants of log(): without the catch; notifying before persisting
logNoCatch(saved, entry, readFails, writeFails) ==
    LET body == logTry(saved, entry, readFails, writeFails)
    IN  [storage |-> body.storage,
         seen |-> body.storage,
         dispatched |-> body.dispatched,
         raised |-> body.threw,
         trace |-> IF body.dispatched
                   THEN <<Effect("setItem", HeadOrNone(body.storage.items),
                                 Len(body.storage.items)),
                          Effect("dispatch", entry, 0)>>
                   ELSE <<>>]

logDispatchFirst(saved, entry, readFails, writeFails) ==
    LET body == logTry(saved, entry, readFails, writeFails)
    IN  [storage |-> body.storage,
         seen |-> saved,
         dispatched |-> body.dispatched,
         raised |-> FALSE,
         trace |-> IF body.dispatched
                   THEN <<Effect("dispatch", entry, 0),
                          Effect("setItem", HeadOrNone(body.storage.items),
                                 Len(body.storage.items))>>
                   ELSE <<>>]

\* faulty variant of log(): it notifies twice
logDispatchTwice(saved, entry, readFails, writeFails) ==
    LET body == logTry(saved, entry, readFails, writeFails)
    IN  [storage |-> body.storage,
         seen |-> body.storage,
         dispatched |-> body.dispatched,
         raised |-> FALSE,
         trace |-> IF body.dispatched
                   THEN <<Effect("setItem", HeadOrNone(body.storage.items),
                                 Len(body.storage.items)),
                          Effect("dispatch", entry, 0),
                          Effect("dispatch", entry, 0)>>
                   ELSE <<>>]

\* log(): the try block under its catch, which swallows every exception;
\* `seen` is the stored value while the listeners of the notification run
log(saved, entry, readFails, writeFails) ==
    LET body == logTry(saved, entry, readFails, writeFails)
    IN  [storage |-> body.storage,
         seen |-> body.storage,
         dispatched |-> body.dispatched,
         raised |-> FALSE,
         trace |-> IF body.dispatched
                   THEN <<Effect("setItem", HeadOrNone(body.storage.items),
                                 Len(body.storage.items)),
                          Effect("dispatch", entry, 0)>>
                   ELSE <<>>]

\* faulty variant of handleUpdate: the snapshot is not refreshed
handleUpdateKeepsView(view, isMounted, saved, dispatched, readFails) == view

\* handleUpdate: the view's listener re-reads the ledger on every notification
handleUpdate(view, isMounted, saved, dispatched, readFails) ==
    IF isMounted /\ dispatched THEN getLogs(saved, readFails) ELSE view

\* faulty variant of the counter: every notification is counted
backgroundCountAnyPage(count, page, isMounted, dispatched) ==
    IF isMounted /\ dispatched THEN count + 1 ELSE count

\* handleUpdate: if (currentPage !== 1) setBackgroundLogsCount(prev => prev + 1)
backgroundCount(count, page, isMounted, dispatched) ==
    IF isMounted /\ dispatched /\ page # 1 THEN count + 1 ELSE count

(* ------------------------------------------------------- AuditLogView *)

\* faulty variant of the comparator: strings compared as they are
compareCaseSensitive(a, b, key, direction) ==
    LET less(x, y) ==
            IF key = "timestamp" THEN x[key] < y[key]
            ELSE StringLess(Chars[x[key]], Chars[y[key]])
    IN  IF less(a, b) THEN (IF direction = "asc" THEN -1 ELSE 1)
        ELSE IF less(b, a) THEN (IF direction = "asc" THEN 1 ELSE -1)
        ELSE 0

\* the comparator of sortedAndFilteredLogs: numbers by value, strings
\* lower-cased
compare(a, b, key, direction) ==
    LET less(x, y) ==
            IF key = "timestamp" THEN x[key] < y[key]
            ELSE LowerLess[x[key]][y[key]]
    IN  IF less(a, b) THEN (IF direction = "asc" THEN -1 ELSE 1)
        ELSE IF less(b, a) THEN (IF direction = "asc" THEN 1 ELSE -1)
        ELSE 0

\* Array.prototype.sort with that comparator: a stable sort
sortLogs(items, key, direction) ==
    LET n == Len(items)
        before(j, i) ==
            LET c == compare(items[j], items[i], key, direction)
            IN  c < 0 \/ (c = 0 /\ j < i)
        \* the place of each entry: one past the number of entries before it
        place == [i \in 1..n |-> Cardinality({j \in 1..n : before(j, i)}) + 1] \o <<>>
    IN  [k \in 1..n |-> items[CHOOSE i \in 1..n : place[i] = k]]

\* faulty variant of the filter: the entry's texts are not lower-cased
filteredLogsCaseSensitive(items, category, query) ==
    LET searchStr == toLowerCase(Chars[query])
        matches(x) ==
            LET matchesCategory == category = "ALL" \/ x.category = category
                matchesText ==
                    \/ includes(Chars[x.action], searchStr)
                    \/ includes(Chars[x.category], searchStr)
                    \/ /\ x.metadata # "undefined"
                       /\ includes(MetadataJson[x.metadata], searchStr)
            IN  IF query = "" THEN matchesCategory
                ELSE matchesCategory /\ matchesText
    IN  SelectSeq(items, matches)

\* logs.filter(...) of sortedAndFilteredLogs
filteredLogs(items, category, query) ==
    LET searchStr == toLowerCase(Chars[query])
        matches(x) ==
            LET matchesCategory == category = "ALL" \/ x.category = category
                matchesText ==
                    \/ includes(toLowerCase(Chars[x.action]), searchStr)
                    \/ includes(toLowerCase(Chars[x.category]), searchStr)
                    \/ /\ x.metadata # "undefined"
                       /\ includes(toLowerCase(MetadataJson[x.metadata]), searchStr)
            IN  IF query = "" THEN matchesCategory
                ELSE matchesCategory /\ matchesText
    IN  SelectSeq(items, matches)

\* sortedAndFilteredLogs: the filtered list, sorted
sortedAndFilteredLogs(items, category, query, config) ==
    sortLogs(filteredLogs(items, category, query), config.key, config.direction)

\* Math.ceil(length / PAGE_SIZE)
totalPages(length) == (length + PAGE_SIZE - 1) \div PAGE_SIZE

\* Array.prototype.slice(start, end) for 0 <= start <= end
slice(items, start, end) ==
    LET last == IF end < Len(items) THEN end ELSE Len(items)
    IN  IF start >= last THEN <<>> ELSE SubSeq(items, start + 1, last)

\* faulty variant of paginatedLogs: the first page starts one page late
paginatedLogsFromPage(items, page) ==
    slice(items, page * PAGE_SIZE, page * PAGE_SIZE + PAGE_SIZE)

\* paginatedLogs: sortedAndFilteredLogs.slice(start, start + PAGE_SIZE)
paginatedLogs(items, page) ==
    LET start == (page - 1) * PAGE_SIZE
    IN  slice(items, start, start + PAGE_SIZE)

\* the pages the pagination bar and the "new traces" banner offer
PageButtons(page, pages, count) ==
    LET lo == IF page - 2 > 1 THEN page - 2 ELSE 1
        endPage == IF pages < lo + 4 THEN pages ELSE lo + 4
        startPage == IF endPage - lo < 4
                     THEN (IF endPage - 4 > 1 THEN endPage - 4 ELSE 1)
                     ELSE lo
        bar == IF pages > 1
               THEN (startPage..endPage)
                    \cup (IF page # 1 THEN {1, page - 1} ELSE {})
                    \cup (IF page # pages THEN {page + 1, pages} ELSE {})
               ELSE {}
        banner == IF count > 0 /\ page # 1 THEN {1} ELSE {}
    IN  bar \cup banner

\* handleSort(key): ascending, unless the key is already sorted ascending
handleSort(prev, key) ==
    [key |-> key,
     direction |-> IF prev.key = key /\ prev.direction = "asc" THEN "desc" ELSE "asc"]

(* ------------------------------------------------------------ actions *)

Failures == {"none", "read", "write"}

\* the arguments of a log call: one triple per kind of metadata
LogArgs ==
    { <<"SYSTEM", "Neural core authenticated via existing session", "undefined">>,
      <<"FINANCIAL", "Withdrawal process initiated", "plain">>,
      <<"SECURITY", "Failed to initiate key selection", "error">>,
      <<"OPERATION", "Bot manual performance tuning", "circular">> }

\* LoggerService.log(category, action, metadata)
LogCall(category, action, metadata, id, dt, fail) ==
    LET entry == AuditLog(id, now + dt, category, action, metadata)
        r == log(storage, entry, fail = "read", fail = "write")
    IN  /\ storage' = r.storage
        /\ now' = now + dt
        /\ logs' = handleUpdate(logs, mounted, r.seen, r.dispatched, fail = "read")
        /\ calls' = calls + 1
        /\ lastOp' = "log"
        /\ newLog' = entry
        /\ raised' = r.raised
        /\ trace' = r.trace
        /\ failure' = fail
        /\ backgroundLogsCount' =
              backgroundCount(backgroundLogsCount, currentPage, mounted, r.dispatched)
        /\ UNCHANGED <<mounted, currentPage>>

Log ==
    /\ calls < MaxCalls
    /\ \E args \in LogArgs, id \in Ids, dt \in Ticks, fail \in Failures :
          LogCall(args[1], args[2], args[3], id, dt, fail)
    /\ UNCHANGED <<viewVars, flowVars, timerVars, otherVars>>

\* LoggerService.clearLogs(): log the purge, then removeItem
PurgeAction == "Manual ledger purge initiated"

\* faulty variant of clearLogs(): removeItem first, then log the purge
clearLogsRemoveFirst(saved, entry, readFails, writeFails) ==
    LET r == log(NoItem, entry, readFails, writeFails)
    IN  [storage |-> r.storage,
         dispatched |-> r.dispatched,
         afterLog |-> r.seen,
         raised |-> r.raised,
         trace |-> <<Effect("removeItem", NoLog, 0)>> \o r.trace]

clearLogs(saved, entry, readFails, writeFails) ==
    LET r == log(saved, entry, readFails, writeFails)
    IN  [storage |-> NoItem,
         dispatched |-> r.dispatched,
         afterLog |-> r.seen,
         raised |-> r.raised,
         trace |-> r.trace \o <<Effect("removeItem", NoLog, 0)>>]

ClearLogsCall(id, dt, fail) ==
    LET entry == AuditLog(id, now + dt, "SECURITY", PurgeAction, "undefined")
        r == clearLogs(storage, entry, fail = "read", fail = "write")
    IN  /\ storage' = r.storage
        /\ now' = now + dt
        /\ logs' = handleUpdate(logs, mounted, r.afterLog, r.dispatched, fail = "read")
        /\ calls' = calls + 1
        /\ lastOp' = "clearLogs"
        /\ newLog' = entry
        /\ raised' = r.raised
        /\ trace' = r.trace
        /\ failure' = fail
        /\ backgroundLogsCount' =
              backgroundCount(backgroundLogsCount, currentPage, mounted, r.dispatched)
        /\ UNCHANGED <<mounted, currentPage>>

ClearLogs ==
    /\ calls < MaxCalls
    /\ \E id \in Ids, dt \in Ticks, fail \in Failures :
          ClearLogsCall(id, dt, fail)
    /\ UNCHANGED <<viewVars, flowVars, timerVars, otherVars>>

\* AuditLogView.handleClear: confirm(), clearLogs(), setLogs(getLogs())
HandleClearCall(confirmed, id, dt, fail) ==
    LET entry == AuditLog(id, now + dt, "SECURITY", PurgeAction, "undefined")
        r == clearLogs(storage, entry, fail = "read", fail = "write")
    IN  IF confirmed
        THEN /\ storage' = r.storage
             /\ now' = now + dt
             /\ logs' = getLogs(r.storage, fail = "read")
             /\ calls' = calls + 1
             /\ lastOp' = "handleClear"
             /\ newLog' = entry
             /\ raised' = r.raised
             /\ trace' = r.trace
             /\ failure' = fail
             /\ backgroundLogsCount' =
                   backgroundCount(backgroundLogsCount, currentPage, mounted, r.dispatched)
             /\ UNCHANGED <<mounted, currentPage>>
        ELSE /\ calls' = calls + 1
             /\ lastOp' = "handleClearDeclined"
             /\ raised' = FALSE
             /\ trace' = <<>>
             /\ failure' = "none"
             /\ UNCHANGED <<storage, now, logs, newLog, mounted, pageVars>>

HandleClear ==
    /\ mounted
    /\ calls < MaxCalls
    /\ \E confirmed \in BOOLEAN, id \in Ids, dt \in Ticks, fail \in Failures :
          HandleClearCall(confirmed, id, dt, fail)
    /\ UNCHANGED <<viewVars, flowVars, timerVars, otherVars>>

\* the subscription effect of AuditLogView on mount: setLogs(getLogs())
Mount ==
    /\ ~mounted
    /\ \E readFails \in BOOLEAN :
          /\ mounted' = TRUE
          /\ logs' = getLogs(storage, readFails)
          /\ lastOp' = "mount"
          /\ raised' = FALSE
          /\ trace' = <<>>
          /\ failure' = IF readFails THEN "read" ELSE "none"
          /\ UNCHANGED <<storage, now, calls, newLog, viewVars, flowVars, pageVars,
                         timerVars, otherVars>>

\* useState defaults of AuditLogView
DefaultSort == [key |-> "timestamp", direction |-> "desc"]

\* faulty variant of the effect's cleanup: the interval is left running
clearIntervalNever(running, id) == running

\* clearInterval(id), guarded by `if (liveTimerRef.current)`
clearInterval(running, id) == IF id # 0 THEN running \ {id} ELSE running

\* leaving the audit view: the listener is removed, the interval cleared,
\* the state discarded
Unmount ==
    /\ mounted
    /\ mounted' = FALSE
    /\ logs' = EmptyArray
    /\ filter' = "ALL"
    /\ searchQuery' = ""
    /\ sortConfig' = DefaultSort
    /\ isLiveLedger' = FALSE
    /\ currentPage' = 1
    /\ backgroundLogsCount' = 0
    /\ timers' = clearInterval(timers, liveTimerRef)
    /\ liveTimerRef' = 0
    /\ lastOp' = "unmount"
    /\ raised' = FALSE
    /\ trace' = <<>>
    /\ failure' = "none"
    /\ UNCHANGED <<storage, now, calls, newLog, paymentStep, callOrder, timerSeq, otherVars>>

(* ------------------------------------------------------ specifications *)

CategoryOrder == <<"SYSTEM", "FINANCIAL", "SECURITY", "OPERATION", "AI", "MARKETPLACE">>

\* the ledger an earlier session left behind after n appends
Persisted(n) ==
    Value("array",
          [i \in 1..n |->
              AuditLog((i % MaxIds) + 1, StartTime - i, CategoryOrder[(i % 6) + 1],
                       "old-" \o ToString(n - i), "plain")])

\* ledgers far from the capacity, and one that the next append fills
SmallStores == {NoItem, EmptyArray, Persisted(1)}
WellFormedStores == SmallStores \cup {Persisted(MAX_LOGS - 1)}

MalformedStores == {EmptyString, InvalidJson, JsonNull, JsonObject, JsonString, JsonJunkArray}

InitState(stores, envs, checked) ==
    /\ storage \in stores
    /\ aistudio \in envs
    /\ apiKeySelected = checked
    /\ isCheckingKey = ~checked
    /\ authCheck = (IF checked THEN "done" ELSE "pending")
    /\ selecting = 0
    /\ selectResult = "none"
    /\ dialog = "none"
    /\ requests = 0
    /\ authResets = 0
    /\ activeSource = 0
    /\ activeContext = 0
    /\ speaks = <<>>
    /\ speakingMsgTimestamp = 0
    /\ now = StartTime
    /\ mounted = FALSE
    /\ logs = EmptyArray
    /\ calls = 0
    /\ lastOp = "init"
    /\ newLog = NoLog
    /\ raised = FALSE
    /\ trace = <<>>
    /\ failure = "none"
    /\ filter = "ALL"
    /\ searchQuery = ""
    /\ sortConfig = DefaultSort
    /\ isLiveLedger = FALSE
    /\ paymentStep = "details"
    /\ callOrder = <<>>
    /\ currentPage = 1
    /\ backgroundLogsCount = 0
    /\ liveTimerRef = 0
    /\ timers = {}
    /\ timerSeq = 0
    /\ globalBalance = INITIAL_BALANCE
    /\ transactions = <<>>
    /\ activeView = "DASHBOARD"
    /\ checkoutData = 0
    /\ payments = <<>>
    /\ amount = 0
    /\ walletAddress = ""
    /\ showConfirmModal = FALSE
    /\ isProcessing = FALSE
    /\ whitelistedAddresses = {"bc1-listed", "0x-listed"}
    /\ dailyUsage = 0
    /\ withdrawals = <<>>

\* a session whose key check has passed
InitWith(stores) == InitState(stores, {TRUE}, TRUE)

\* any session: the key absent, a short ledger, or a string that is not one
Init == InitWith(SmallStores \cup MalformedStores)

Next == Log \/ ClearLogs \/ HandleClear \/ Mount \/ Unmount

Spec == Init /\ [][Next]_vars

\* sessions that start from an absent or well-formed ledger, up to the capacity
InitWellFormed == InitWith(WellFormedStores)

\* the same handlers with the id and the clock of each call fixed: what is
\* checked of a ledger at its capacity depends on neither
LogSteady ==
    /\ calls < MaxCalls
    /\ \E args \in LogArgs, fail \in Failures :
          LogCall(args[1], args[2], args[3], (calls % MaxIds) + 1, 1, fail)
    /\ UNCHANGED <<viewVars, flowVars, timerVars, otherVars>>

ClearLogsSteady ==
    /\ calls < MaxCalls
    /\ \E fail \in Failures : ClearLogsCall((calls % MaxIds) + 1, 1, fail)
    /\ UNCHANGED <<viewVars, flowVars, timerVars, otherVars>>

HandleClearSteady ==
    /\ mounted
    /\ calls < MaxCalls
    /\ \E confirmed \in BOOLEAN, fail \in Failures :
          HandleClearCall(confirmed, (calls % MaxIds) + 1, 1, fail)
    /\ UNCHANGED <<viewVars, flowVars, timerVars, otherVars>>

NextWellFormed ==
    LogSteady \/ ClearLogsSteady \/ HandleClearSteady \/ Mount \/ Unmount

SpecWellFormed == InitWellFormed /\ [][NextWellFormed]_vars

\* appends only, from an empty ledger, the n-th call logging "evt-n"
InitAppend == InitWith({NoItem})

\* the arguments, id and clock advance of the n-th append, n = 0, 1, ...
AppendCategory(n) == CategoryOrder[(n % 6) + 1]
AppendAction(n) == "evt-" \o ToString(n)
AppendMetadata(n) == IF n % 2 = 0 THEN "undefined" ELSE "plain"
AppendId(n) == (n % MaxIds) + 1
AppendEntry(n) ==
    AuditLog(AppendId(n), StartTime + n + 1, AppendCategory(n), AppendAction(n),
             AppendMetadata(n))

Append1 ==
    /\ calls < MaxAppends
    /\ LogCall(AppendCategory(calls), AppendAction(calls), AppendMetadata(calls),
               AppendId(calls), 1, "none")
    /\ UNCHANGED <<viewVars, flowVars, timerVars, otherVars>>

NextAppend == Append1

SpecAppend == InitAppend /\ [][NextAppend]_vars

(* ------------------------------------------------------ async flows *)

\* the mock entries of the live-ledger simulator
MOCK_ACTIONS ==
    << <<"OPERATION", "Neural node hashrate re-balanced", "plain">>,
       <<"SYSTEM", "Lattice sync heartbeat pulse", "plain">>,
       <<"AI", "Yield curve re-calculation", "plain">>,
       <<"OPERATION", "Thermal threshold check passed", "plain">>,
       <<"SECURITY", "Encrypted handshake verified", "plain">>,
       <<"FINANCIAL", "Bot performance payout calculated", "plain">>,
       <<"SYSTEM", "Shard migration initiated", "plain">> >>

\* a log call of a flow: it runs to completion before any other handler
FlowLog(category, action, metadata) ==
    /\ calls < MaxFlowCalls
    /\ LogCall(category, action, metadata, (calls % MaxIds) + 1, 1, "none")
    /\ callOrder' = Append(callOrder, newLog')
    /\ UNCHANGED <<viewVars, timerVars, otherVars>>

\* handlePayment up to its first await
PaymentSubmit ==
    /\ paymentStep = "details"
    /\ FlowLog("FINANCIAL", "Stripe Payment Intent Created (Simulated)", "plain")
    /\ paymentStep' = "processing"
    /\ UNCHANGED isLiveLedger

\* handlePayment between its two awaits: setStep('confirming')
PaymentConfirming ==
    /\ paymentStep = "processing"
    /\ paymentStep' = "confirming"
    /\ lastOp' = "paymentConfirming"
    /\ raised' = FALSE
    /\ trace' = <<>>
    /\ failure' = "none"
    /\ UNCHANGED <<storage, now, mounted, logs, calls, newLog, viewVars,
                   isLiveLedger, callOrder, pageVars, timerVars, otherVars>>

\* handlePayment after its second await
PaymentCharge ==
    /\ paymentStep = "confirming"
    /\ FlowLog("FINANCIAL", "Stripe Charge Succeeded (Simulated)", "plain")
    /\ paymentStep' = "success"
    /\ UNCHANGED isLiveLedger

\* the live-ledger effect after isLiveLedger changed to `on`: the cleanup of
\* the previous run, then the new run; [ref, running, seq]
liveLedgerEffect(on, ref, running, seq) ==
    LET cleaned == clearInterval(running, ref)
    IN  IF on
        THEN [ref |-> seq + 1, running |-> cleaned \cup {seq + 1}, seq |-> seq + 1]
        ELSE [ref |-> ref, running |-> clearInterval(cleaned, ref), seq |-> seq]

\* the live-ledger button: setIsLiveLedger(!isLiveLedger); the effect sets
\* or clears the interval
ToggleLiveLedger ==
    /\ mounted
    /\ isLiveLedger \/ timerSeq < MaxTimers
    /\ isLiveLedger' = ~isLiveLedger
    /\ LET e == liveLedgerEffect(~isLiveLedger, liveTimerRef, timers, timerSeq)
       IN  /\ liveTimerRef' = e.ref
           /\ timers' = e.running
           /\ timerSeq' = e.seq
    /\ lastOp' = "toggleLiveLedger"
    /\ raised' = FALSE
    /\ trace' = <<>>
    /\ failure' = "none"
    /\ UNCHANGED <<storage, now, mounted, logs, calls, newLog, viewVars,
                   paymentStep, callOrder, pageVars, otherVars>>

\* one tick of the interval: a random mock entry is logged
LiveTick ==
    /\ timers # {}
    /\ \E k \in 1..Len(MOCK_ACTIONS) :
          FlowLog(MOCK_ACTIONS[k][1], MOCK_ACTIONS[k][2], MOCK_ACTIONS[k][3])
    /\ UNCHANGED <<paymentStep, isLiveLedger>>

InitFlows == InitWith({NoItem})

NextFlows ==
    \/ PaymentSubmit \/ PaymentConfirming \/ PaymentCharge
    \/ ToggleLiveLedger \/ LiveTick
    \/ Mount \/ Unmount

SpecFlows == InitFlows /\ [][NextFlows]_vars

(* ------------------------------------------------------ the audit view *)

\* a ledger whose texts differ in case and match a search in different fields
ViewLedger ==
    Value("array",
          << AuditLog(1, StartTime - 1, "SECURITY", "apple", "undefined"),
             AuditLog(2, StartTime - 2, "FINANCIAL", "Pay", "plain"),
             AuditLog(3, StartTime - 2, "SYSTEM", "Zed", "stripped"),
             AuditLog(4, StartTime - 4, "FINANCIAL", "secure", "undefined") >>)

\* what the user types in the search box
Queries == {"", "sec", "PAY", "err"}

SortKeys == {"timestamp", "category", "action"}

\* a state change of the view that touches nothing of the ledger
ViewStep(op) ==
    /\ mounted
    /\ lastOp' = op
    /\ raised' = FALSE
    /\ trace' = <<>>
    /\ failure' = "none"
    /\ UNCHANGED <<storage, now, mounted, logs, calls, newLog, flowVars, timerVars,
                   otherVars>>

\* the effect on [filter, searchQuery, sortConfig]: it runs when one of them
\* changed; handleSort makes a new sortConfig object on every call
ResetEffect(changed) ==
    IF changed
    THEN currentPage' = 1 /\ backgroundLogsCount' = 0
    ELSE UNCHANGED pageVars

\* a category button: setFilter(cat)
SetFilter ==
    /\ ViewStep("setFilter")
    /\ \E cat \in LogCategory \cup {"ALL"} : filter' = cat
    /\ ResetEffect(filter' # filter)
    /\ UNCHANGED <<searchQuery, sortConfig>>

\* the search box: setSearchQuery(e.target.value)
SetSearchQuery ==
    /\ ViewStep("setSearchQuery")
    /\ \E q \in Queries : searchQuery' = q
    /\ ResetEffect(searchQuery' # searchQuery)
    /\ UNCHANGED <<filter, sortConfig>>

\* a column header: handleSort(key)
HandleSort ==
    /\ ViewStep("handleSort")
    /\ \E key \in SortKeys : sortConfig' = handleSort(sortConfig, key)
    /\ ResetEffect(TRUE)
    /\ UNCHANGED <<filter, searchQuery>>

\* a page button: handlePageChange(page)
HandlePageChange ==
    /\ ViewStep("handlePageChange")
    /\ \E page \in PageButtons(currentPage,
                                totalPages(Len(sortedAndFilteredLogs(logs.items, filter,
                                                                    searchQuery, sortConfig))),
                                backgroundLogsCount) :
          /\ currentPage' = page
          /\ backgroundLogsCount' = IF page = 1 THEN 0 ELSE backgroundLogsCount
    /\ UNCHANGED viewVars

InitView == InitWith({ViewLedger, EmptyArray})

NextView == SetFilter \/ SetSearchQuery \/ HandleSort \/ Mount \/ Unmount

SpecView == InitView /\ [][NextView]_vars

(* ---------------------------------------------------------- pagination *)

PageActions == <<"apple", "Pay", "Zed", "secure">>

\* a ledger of three pages, the last one short
PageLedger ==
    Value("array",
          [i \in 1..(2 * PAGE_SIZE + 5) |->
              AuditLog(i, StartTime - i, CategoryOrder[(i % 6) + 1],
                       PageActions[(i % 4) + 1], "undefined")])

\* a log call of any component while the view is shown
PageLog ==
    /\ calls < MaxCalls
    /\ \E fail \in Failures :
          LogCall(CategoryOrder[(calls % 6) + 1], PageActions[(calls % 4) + 1], "undefined",
                  (calls % MaxIds) + 1, 1, fail)
    /\ UNCHANGED <<viewVars, flowVars, timerVars, otherVars>>

InitPage == InitWith({PageLedger})

NextPage ==
    \/ SetFilter \/ SetSearchQuery \/ HandleSort \/ HandlePageChange
    \/ PageLog \/ HandleClearSteady
    \/ Mount \/ Unmount

SpecPage == InitPage /\ [][NextPage]_vars

(* ------------------------------------- the App: balance and transfers *)

AppViews == {"DASHBOARD", "MINING_BOTS", "WITHDRAW"}

\* basePrice of the bot tiers, in cents
BotPrices == {24999, 89950, 245000, 799900}

\* what the user types in the amount field, in cents
WithdrawAmounts == {0, 200000, 250000}

\* destinations and the format the validation's patterns find in them
\* ("" for none)
AddressFormat ==
       ("0x-listed" :> "ETH")
    @@ ("bc1-listed" :> "BTC (SegWit)")
    @@ ("sol-unlisted" :> "SOL")
    @@ ("bad" :> "")
    @@ ("" :> "")

\* what the user types in the destination field
FormAddresses == {"0x-listed", "sol-unlisted", "bad"}

\* a Transaction; `listed` records whether its address was whitelisted when
\* the transaction was recorded
Tx(kind, amt, timestamp, address, listed) ==
    [kind |-> kind, amount |-> amt, timestamp |-> timestamp, address |-> address,
     listed |-> listed]

RECURSIVE SumAmounts(_)
SumAmounts(txs) == IF txs = <<>> THEN 0 ELSE txs[1].amount + SumAmounts(Tail(txs))

\* dailyUsage: the confirmed transactions of the last 24 h, summed
dailyUsageOf(history, t) ==
    SumAmounts(SelectSeq(history, LAMBDA tx : tx.timestamp > t - DAY))

\* the useMemo of dailyUsage: recomputed when history changes on the page
dailyUsageMemo(view, history, t, memo) ==
    IF view = "WITHDRAW" THEN dailyUsageOf(history, t) ELSE memo

\* validation: isValid and isWhitelisted
validation(addr, amt, usage, whitelist) ==
    LET isWhitelisted == addr \in whitelist
    IN  IF addr = "" THEN [isValid |-> FALSE, isWhitelisted |-> FALSE]
        ELSE IF amt > 0 /\ amt > TRANSACTION_LIMIT
             THEN [isValid |-> FALSE, isWhitelisted |-> isWhitelisted]
        ELSE IF amt > 0 /\ usage + amt > DAILY_LIMIT
             THEN [isValid |-> FALSE, isWhitelisted |-> isWhitelisted]
        ELSE IF AddressFormat[addr] = ""
             THEN [isValid |-> FALSE, isWhitelisted |-> FALSE]
        ELSE [isValid |-> TRUE, isWhitelisted |-> isWhitelisted]

isInvalid(amt, balance, v) ==
    amt <= 0 \/ amt > balance \/ ~v.isValid \/ ~v.isWhitelisted

\* a step of the App that makes no log call
AppStep(op) ==
    /\ lastOp' = op
    /\ raised' = FALSE
    /\ trace' = <<>>
    /\ failure' = "none"
    /\ UNCHANGED <<storage, now, mounted, logs, calls, newLog, viewVars, flowVars,
                   pageVars, timerVars, sessionVars>>

\* a log call of one of the App's handlers
AppLog(category, action) ==
    /\ calls < MaxAppCalls
    /\ LogCall(category, action, "plain", (calls % MaxIds) + 1, 1, "none")
    /\ UNCHANGED <<viewVars, flowVars, timerVars, sessionVars>>

\* the withdrawals whose page has been left
Detached(flows) == [i \in 1..Len(flows) |-> [flows[i] EXCEPT !.attached = FALSE]]

\* handleViewChange(view): leaving the withdrawal page discards its state,
\* entering it computes dailyUsage
HandleViewChange ==
    /\ checkoutData = 0
    /\ ~showConfirmModal
    /\ \E view \in AppViews \ {activeView} :
          /\ activeView' = view
          /\ AppLog("SYSTEM", "User changed view")
          /\ IF activeView = "WITHDRAW"
             THEN /\ amount' = 0
                  /\ walletAddress' = ""
                  /\ isProcessing' = FALSE
                  /\ dailyUsage' = 0
                  /\ withdrawals' = Detached(withdrawals)
             ELSE /\ dailyUsage' = dailyUsageMemo(view, transactions, now', dailyUsage)
                  /\ UNCHANGED <<amount, walletAddress, isProcessing, withdrawals>>
    /\ UNCHANGED <<globalBalance, transactions, checkoutData, payments,
                   showConfirmModal, whitelistedAddresses>>

\* typing in the withdrawal form
SetWithdrawForm ==
    /\ activeView = "WITHDRAW"
    /\ ~isProcessing
    /\ ~showConfirmModal
    /\ \E a \in WithdrawAmounts, addr \in FormAddresses :
          /\ <<a, addr>> # <<amount, walletAddress>>
          /\ amount' = a
          /\ walletAddress' = addr
    /\ AppStep("setWithdrawForm")
    /\ UNCHANGED <<appVars, showConfirmModal, isProcessing, whitelistedAddresses,
                   dailyUsage, withdrawals>>

\* handleInitiateWithdraw: if (isInvalid) return; log; open the modal
HandleInitiateWithdraw ==
    /\ activeView = "WITHDRAW"
    /\ ~isProcessing
    /\ ~showConfirmModal
    /\ ~isInvalid(amount, globalBalance,
                  validation(walletAddress, amount, dailyUsage, whitelistedAddresses))
    /\ AppLog("FINANCIAL", "Withdrawal process initiated")
    /\ showConfirmModal' = TRUE
    /\ UNCHANGED <<appVars, amount, walletAddress, isProcessing, whitelistedAddresses,
                   dailyUsage, withdrawals>>

\* "Cancel Trace" or a click beside the modal
CancelWithdraw ==
    /\ showConfirmModal
    /\ showConfirmModal' = FALSE
    /\ AppStep("cancelWithdraw")
    /\ UNCHANGED <<appVars, amount, walletAddress, isProcessing, whitelistedAddresses,
                   dailyUsage, withdrawals>>

\* handleConfirmWithdraw up to its first await: the amount and the address
\* of this render stay with the call
HandleConfirmWithdraw ==
    /\ showConfirmModal
    /\ Len(withdrawals) < MaxWithdrawals
    /\ showConfirmModal' = FALSE
    /\ isProcessing' = TRUE
    /\ withdrawals' = Append(withdrawals,
                             [amount |-> amount, address |-> walletAddress,
                              attached |-> TRUE, done |-> FALSE])
    /\ AppStep("handleConfirmWithdraw")
    /\ UNCHANGED <<appVars, amount, walletAddress, whitelistedAddresses, dailyUsage>>

\* handleConfirmWithdraw after its awaits: onWithdraw(tx) is addTransaction,
\* then the page (if it is still the one that started the call) is reset
FinishWithdraw ==
    \E i \in 1..Len(withdrawals) :
        LET w == withdrawals[i]
            tx == Tx("TX", w.amount, now, w.address, w.address \in whitelistedAddresses)
        IN  /\ ~w.done
            /\ transactions' = <<tx>> \o transactions
            /\ globalBalance' = globalBalance - tx.amount
            /\ AppLog("FINANCIAL", "Extraction transaction finalized")
            /\ withdrawals' = [withdrawals EXCEPT ![i].done = TRUE]
            /\ IF w.attached
               THEN isProcessing' = FALSE /\ amount' = 0 /\ walletAddress' = ""
               ELSE UNCHANGED <<isProcessing, amount, walletAddress>>
            /\ dailyUsage' = dailyUsageMemo(activeView, transactions', now', dailyUsage)
            /\ UNCHANGED <<activeView, checkoutData, payments, showConfirmModal,
                           whitelistedAddresses>>

\* removeWhitelistedAddress(id)
RemoveWhitelistedAddress ==
    /\ activeView = "WITHDRAW"
    /\ ~showConfirmModal
    /\ \E addr \in whitelistedAddresses : whitelistedAddresses' = whitelistedAddresses \ {addr}
    /\ AppLog("SECURITY", "Destination hash removed from whitelist")
    /\ UNCHANGED <<appVars, amount, walletAddress, showConfirmModal, isProcessing,
                   dailyUsage, withdrawals>>

\* handleFinalizeWhitelist after its await: the address is added as typed
HandleFinalizeWhitelist ==
    /\ activeView = "WITHDRAW"
    /\ ~showConfirmModal
    /\ \E addr \in FormAddresses \ whitelistedAddresses :
          whitelistedAddresses' = whitelistedAddresses \cup {addr}
    /\ AppLog("SECURITY", "New destination hash whitelisted")
    /\ UNCHANGED <<appVars, amount, walletAddress, showConfirmModal, isProcessing,
                   dailyUsage, withdrawals>>

\* handlePurchaseBot: if (globalBalance >= price)
canPurchase(balance, price) == balance >= price

\* handleBuyBot of the mining console: onPurchase(newBot, tier.basePrice)
HandlePurchaseBot ==
    /\ activeView = "MINING_BOTS"
    /\ checkoutData = 0
    /\ \E price \in BotPrices :
          IF canPurchase(globalBalance, price)
          THEN /\ globalBalance' = globalBalance - price
               /\ transactions' =
                     <<Tx("PURCHASE", price, now, "INTERNAL_LATTICE_PROVISION", FALSE)>>
                     \o transactions
               /\ AppLog("FINANCIAL", "Cloud node provisioned")
               /\ UNCHANGED checkoutData
          ELSE /\ checkoutData' = price - globalBalance + 10000
               /\ AppLog("SECURITY", "Insufficient balance for provision attempt")
               /\ UNCHANGED <<globalBalance, transactions>>
    /\ UNCHANGED <<activeView, payments, withdrawVars>>

\* onOpenDeposit of the dashboard (500) and of the mining console (1000)
OpenDeposit ==
    /\ checkoutData = 0
    /\ activeView \in {"DASHBOARD", "MINING_BOTS"}
    /\ checkoutData' = IF activeView = "DASHBOARD" THEN 50000 ELSE 100000
    /\ AppStep("openDeposit")
    /\ UNCHANGED <<globalBalance, transactions, activeView, payments, withdrawVars>>

\* the checkout that is open has a payment under way or paid
CheckoutBusy == \E i \in 1..Len(payments) : payments[i].open

\* the payments once the checkout is closed; by onCancel or by a deposit
Closed(flows, byCancel) ==
    [i \in 1..Len(flows) |->
        [flows[i] EXCEPT !.open = FALSE,
                         !.cancelled = @ \/ (byCancel /\ flows[i].open
                                             /\ flows[i].step # "credited")]]

\* handlePayment up to its first await
SubmitPayment ==
    /\ checkoutData # 0
    /\ ~CheckoutBusy
    /\ Len(payments) < MaxPayments
    /\ AppLog("FINANCIAL", "Stripe Payment Intent Created (Simulated)")
    /\ payments' = Append(payments,
                          [amount |-> checkoutData, step |-> "processing",
                           open |-> TRUE, cancelled |-> FALSE])
    /\ UNCHANGED <<globalBalance, transactions, activeView, checkoutData, withdrawVars>>

\* handlePayment between its awaits: setStep('confirming')
ConfirmPayment ==
    /\ \E i \in 1..Len(payments) :
          /\ payments[i].step = "processing"
          /\ payments' = [payments EXCEPT ![i].step = "confirming"]
    /\ AppStep("confirmPayment")
    /\ UNCHANGED <<globalBalance, transactions, activeView, checkoutData, withdrawVars>>

\* handlePayment after its second await: log, setStep('success'), and the
\* timeout for onSuccess is set
ChargePayment ==
    /\ \E i \in 1..Len(payments) :
          /\ payments[i].step = "confirming"
          /\ payments' = [payments EXCEPT ![i].step = "charged"]
    /\ AppLog("FINANCIAL", "Stripe Charge Succeeded (Simulated)")
    /\ UNCHANGED <<globalBalance, transactions, activeView, checkoutData, withdrawVars>>

\* the timeout fires: onSuccess(amount) is handleDepositSuccess
HandleDepositSuccess ==
    /\ \E i \in 1..Len(payments) :
          /\ payments[i].step = "charged"
          /\ globalBalance' = globalBalance + payments[i].amount
          /\ transactions' =
                <<Tx("DEP", payments[i].amount, now, "EXTERNAL_STRIPE_INGRESS", FALSE)>>
                \o transactions
          /\ payments' = Closed([payments EXCEPT ![i].step = "credited"], FALSE)
    /\ checkoutData' = 0
    /\ AppLog("FINANCIAL", "Deposit synchronized via Stripe")
    /\ dailyUsage' = dailyUsageMemo(activeView, transactions', now', dailyUsage)
    /\ UNCHANGED <<activeView, amount, walletAddress, showConfirmModal, isProcessing,
                   whitelistedAddresses, withdrawals>>

\* "Return to Grid": onCancel is setCheckoutData(null)
CancelCheckout ==
    /\ checkoutData # 0
    /\ checkoutData' = 0
    /\ payments' = Closed(payments, TRUE)
    /\ AppStep("cancelCheckout")
    /\ UNCHANGED <<globalBalance, transactions, activeView, withdrawVars>>

\* a session of less than a day
InitApp == InitWith({NoItem})

NextApp ==
    \/ HandleViewChange
    \/ SetWithdrawForm \/ HandleInitiateWithdraw \/ CancelWithdraw
    \/ HandleConfirmWithdraw \/ FinishWithdraw
    \/ RemoveWhitelistedAddress \/ HandleFinalizeWhitelist
    \/ HandlePurchaseBot
    \/ OpenDeposit \/ SubmitPayment \/ ConfirmPayment \/ ChargePayment
    \/ HandleDepositSuccess \/ CancelCheckout

SpecApp == InitApp /\ [][NextApp]_vars

(* ------------------------------------------------------------ API key *)

\* what window.aistudio.hasSelectedApiKey() can do
KeyStatuses == {"true", "false", "throws"}

\* faulty variant of checkApiKeyStatus(): no catch, a throw rejects the promise
checkApiKeyStatusNoCatch(env, status) ==
    IF ~env THEN [settled |-> TRUE, hasKey |-> FALSE, logged |-> FALSE]
    ELSE [settled |-> status # "throws",
          hasKey |-> status = "true",
          logged |-> status = "true"]

\* AuthService.checkApiKeyStatus(): false without the environment or on a
\* throw, else the environment's answer, logged when there is a key
checkApiKeyStatus(env, status) ==
    IF ~env THEN [settled |-> TRUE, hasKey |-> FALSE, logged |-> FALSE]
    ELSE [settled |-> TRUE,
          hasKey |-> status = "true",
          logged |-> status = "true"]

\* AuthService.selectApiKey() once openSelectKey() has settled (or at once
\* without the environment): what it returns and the action it logs
selectApiKey(env, opened) ==
    IF ~env THEN [success |-> FALSE, action |-> ""]
    ELSE IF opened
         THEN [success |-> TRUE, action |-> "API key selection dialog triggered"]
         ELSE [success |-> FALSE, action |-> "Failed to initiate key selection"]

\* GeminiService.handleError(): the errors that dispatch 'gemini-auth-reset'
GeminiErrors == {"Requested entity was not found", "API key not valid", "quota exceeded"}
IsAuthError(message) ==
    message \in {"Requested entity was not found", "API key not valid"}

AuthResetAction == "Neural core authentication reset triggered"

\* what App renders
Screen ==
    IF isCheckingKey THEN "checking"
    ELSE IF ~apiKeySelected THEN "selectKey"
    ELSE "console"

\* a step of the key gate that makes no log call
AuthStep(op) ==
    /\ lastOp' = op
    /\ raised' = FALSE
    /\ trace' = <<>>
    /\ failure' = "none"
    /\ UNCHANGED <<storage, now, mounted, logs, calls, newLog, viewVars, flowVars,
                   pageVars, timerVars, appVars, withdrawVars>>

\* a log call of the key gate
AuthLog(category, action, metadata) ==
    /\ calls < MaxAppCalls
    /\ LogCall(category, action, metadata, (calls % MaxIds) + 1, 1, "none")
    /\ UNCHANGED <<viewVars, flowVars, timerVars, appVars, withdrawVars>>

\* performInitialAuthCheck() settles
PerformInitialAuthCheck ==
    /\ authCheck = "pending"
    /\ \E status \in KeyStatuses :
          LET r == checkApiKeyStatus(aistudio, status)
          IN  /\ IF r.logged
                 THEN AuthLog("SYSTEM", "Neural core authenticated via existing session",
                              "undefined")
                 ELSE AuthStep("checkApiKeyStatus")
              /\ IF r.settled
                 THEN /\ apiKeySelected' = r.hasKey
                      /\ isCheckingKey' = FALSE
                      /\ authCheck' = "done"
                 ELSE /\ authCheck' = "rejected"
                      /\ UNCHANGED <<apiKeySelected, isCheckingKey>>
    /\ UNCHANGED <<aistudio, selecting, selectResult, dialog, requests, authResets>>
    /\ UNCHANGED speechVars

\* handleSelectKey(), from the key screen's button or the settings view's:
\* without the environment selectApiKey() returns at once
HandleSelectKey ==
    /\ Screen # "checking"
    /\ IF aistudio
       THEN /\ selecting < MaxSelects
            /\ selecting' = selecting + 1
            /\ UNCHANGED <<selectResult, dialog>>
       ELSE /\ selectResult' = (IF selectApiKey(aistudio, FALSE).success THEN "true" ELSE "false")
            /\ dialog' = "absent"
            /\ UNCHANGED selecting
    /\ AuthStep("handleSelectKey")
    /\ UNCHANGED <<aistudio, apiKeySelected, isCheckingKey, authCheck, requests, authResets>>
    /\ UNCHANGED speechVars

\* openSelectKey() settles: selectApiKey() logs and returns, handleSelectKey
\* sets apiKeySelected on success
SelectKeySettles ==
    /\ selecting > 0
    /\ \E opened \in BOOLEAN :
          LET r == selectApiKey(aistudio, opened)
          IN  /\ AuthLog("SECURITY", r.action, IF opened THEN "undefined" ELSE "error")
              /\ selectResult' = (IF r.success THEN "true" ELSE "false")
              /\ dialog' = (IF opened THEN "opened" ELSE "failed")
              /\ apiKeySelected' = (r.success \/ apiKeySelected)
    /\ selecting' = selecting - 1
    /\ UNCHANGED <<aistudio, isCheckingKey, authCheck, requests, authResets>>
    /\ UNCHANGED speechVars

\* GeminiService.handleError(err): an auth error dispatches
\* 'gemini-auth-reset', and App's listener handleAuthReset runs
handleError(message) ==
    /\ IF IsAuthError(message)
       THEN /\ apiKeySelected' = FALSE
            /\ AuthLog("SECURITY", AuthResetAction, "undefined")
            /\ authResets' = authResets + 1
       ELSE /\ AuthStep("handleError")
            /\ UNCHANGED <<apiKeySelected, authResets>>
    /\ UNCHANGED <<aistudio, isCheckingKey, authCheck, selecting, selectResult, dialog>>

\* a Gemini request is sent from the console
GeminiRequest ==
    /\ Screen = "console"
    /\ requests < MaxRequests
    /\ requests' = requests + 1
    /\ AuthStep("request")
    /\ UNCHANGED <<aistudio, apiKeySelected, isCheckingKey, authCheck, selecting,
                   selectResult, dialog, authResets>>
    /\ UNCHANGED speechVars

\* a Gemini request succeeds
GeminiResponse ==
    /\ requests > 0
    /\ requests' = requests - 1
    /\ AuthStep("response")
    /\ UNCHANGED <<aistudio, apiKeySelected, isCheckingKey, authCheck, selecting,
                   selectResult, dialog, authResets>>
    /\ UNCHANGED speechVars

\* a Gemini request fails: handleError() dispatches 'gemini-auth-reset' for
\* an auth error, and App's listener handleAuthReset runs
HandleError ==
    /\ requests > 0
    /\ requests' = requests - 1
    /\ \E message \in GeminiErrors : handleError(message)
    /\ UNCHANGED speechVars

\* App mounts with the key check in flight, with or without the environment
InitAuth == InitState({NoItem}, BOOLEAN, FALSE)

NextAuth ==
    \/ PerformInitialAuthCheck
    \/ HandleSelectKey \/ SelectKeySettles
    \/ GeminiRequest \/ GeminiResponse \/ HandleError

SpecAuth == InitAuth /\ [][NextAuth]_vars

\* the environment's promises settle
SpecAuthFair == SpecAuth /\ WF_vars(PerformInitialAuthCheck)

(* ------------------------------------------------------------ speech *)

\* the chat messages that can be read aloud, by timestamp; 0 is a call
\* without onEnded
Messages == {1, 2}

\* what the text-to-speech request can come to
SpeechOutcomes == {"audio", "empty", "error"}

Speak(msg) == [msg |-> msg, step |-> "request", stale |-> FALSE]

\* the sources that were started and have neither ended nor been stopped
Playing == {i \in 1..Len(speaks) : speaks[i].step = "playing"}

\* stopSpeech(): stop and forget activeSource, forget activeContext; every
\* call made so far was requested before this stop
stopSpeech(all, source) ==
    [i \in 1..Len(all) |->
        [all[i] EXCEPT !.stale = TRUE,
                       !.step = IF i = source /\ @ = "playing" THEN "stopped" ELSE @]]

\* a step of the speech service that makes no log call
SpeechStep(op) ==
    /\ AuthStep(op)
    /\ UNCHANGED authVars

\* speakText(text, onEnded) up to its await: stopSpeech(), then the request
speakText(msg) ==
    /\ Len(speaks) < MaxSpeaks
    /\ speaks' = Append(stopSpeech(speaks, activeSource), Speak(msg))
    /\ activeSource' = 0
    /\ activeContext' = 0

\* AICommandCenter.handleSpeak(text, timestamp): the speaking message is
\* stopped, any other is read aloud
HandleSpeak ==
    /\ Screen = "console"
    /\ \E timestamp \in Messages :
          IF speakingMsgTimestamp = timestamp
          THEN /\ speaks' = stopSpeech(speaks, activeSource)
               /\ activeSource' = 0
               /\ activeContext' = 0
               /\ speakingMsgTimestamp' = 0
          ELSE /\ speakText(timestamp)
               /\ speakingMsgTimestamp' = timestamp
    /\ SpeechStep("handleSpeak")

\* runTTSTest(): speakText without onEnded
RunTTSTest ==
    /\ Screen = "console"
    /\ speakText(0)
    /\ SpeechStep("runTTSTest")
    /\ UNCHANGED speakingMsgTimestamp

\* a stopSpeech() call of the console (clearChat, the auto-read switch)
StopSpeech ==
    /\ Screen = "console"
    /\ speaks' = stopSpeech(speaks, activeSource)
    /\ activeSource' = 0
    /\ activeContext' = 0
    /\ SpeechStep("stopSpeech")
    /\ UNCHANGED speakingMsgTimestamp

\* generateContent() settles for one speakText call: playRawAudio starts a
\* source for the audio (decodeAudioData awaits nothing, so this is one
\* task), nothing happens without audio, and an error goes to handleError
\* and on to handleSpeak's catch
SpeakSettles ==
    \E i \in 1..Len(speaks), outcome \in SpeechOutcomes :
        /\ speaks[i].step = "request"
        /\ CASE outcome = "audio" ->
                  /\ speaks' = [speaks EXCEPT ![i].step = "playing"]
                  /\ activeContext' = (IF activeContext = 0 THEN i ELSE activeContext)
                  /\ activeSource' = i
                  /\ SpeechStep("playRawAudio")
                  /\ UNCHANGED speakingMsgTimestamp
             [] outcome = "empty" ->
                  /\ speaks' = [speaks EXCEPT ![i].step = "silent"]
                  /\ SpeechStep("speakText")
                  /\ UNCHANGED <<activeSource, activeContext, speakingMsgTimestamp>>
             [] outcome = "error" ->
                  /\ speaks' = [speaks EXCEPT ![i].step = "failed"]
                  /\ \E message \in GeminiErrors : handleError(message)
                  /\ speakingMsgTimestamp' =
                        (IF speaks[i].msg # 0 THEN 0 ELSE speakingMsgTimestamp)
                  /\ UNCHANGED <<requests, activeSource, activeContext>>

\* source.onended, after the audio played to its end or was stopped
SourceEnded ==
    \E i \in 1..Len(speaks) :
        /\ speaks[i].step \in {"playing", "stopped"}
        /\ speaks' = [speaks EXCEPT ![i].step = "ended"]
        /\ activeSource' = (IF activeSource = i THEN 0 ELSE activeSource)
        /\ speakingMsgTimestamp' = (IF speaks[i].msg # 0 THEN 0 ELSE speakingMsgTimestamp)
        /\ SpeechStep("onended")
        /\ UNCHANGED activeContext

InitSpeech == InitWith({NoItem})

NextSpeech == HandleSpeak \/ RunTTSTest \/ StopSpeech \/ SpeakSettles \/ SourceEnded

SpecSpeech == InitSpeech /\ [][NextSpeech]_vars

(* ------------------------------------------------------------ properties *)

\* what getLogs() returns in the current state when the read succeeds
Ledger == getLogs(storage, FALSE)

IsEntryList(items) == \A i \in 1..Len(items) : items[i].t = "entry"

\* a stored string that is not the JSON text of a list of entries
Malformed(saved) ==
    /\ saved.t # "absent"
    /\ ~(saved.t = "array" /\ IsEntryList(saved.items))

IsClearOp == lastOp \in {"clearLogs", "handleClear"}

HasPurgeRecord(items) ==
    \E i \in 1..Len(items) :
        /\ items[i].t = "entry"
        /\ items[i].category = "SECURITY"
        /\ items[i].action = PurgeAction

\* C1: from an absent or well-formed ledger, after any log and clearLogs
\* calls, getLogs returns at most 500 entries.
C1_AtMostMaxLogs == Len(Ledger.items) <= MAX_LOGS

\* a full ledger from which the oldest persisted entry has been evicted
C1_Witness ==
    /\ lastOp = "log"
    /\ Len(Ledger.items) = MAX_LOGS
    /\ Ledger.items[MAX_LOGS].action = "old-1"

\* C2: from an empty ledger, after N <= 500 appends getLogs returns exactly
\* N entries, the entry at index i (from 0) being that of call N - i; three
\* appends SYSTEM, FINANCIAL, SECURITY read back SECURITY, FINANCIAL, SYSTEM.
C2_ReverseCallOrder ==
    calls <= MAX_LOGS =>
        /\ Ledger.items = [i \in 1..calls |-> AppendEntry(calls - i)]
        /\ calls = 3 =>
              <<Ledger.items[1].category, Ledger.items[2].category,
                Ledger.items[3].category>> = <<"SECURITY", "FINANCIAL", "SYSTEM">>

C2_Witness == calls = MAX_LOGS /\ Len(Ledger.items) = MAX_LOGS

\* C3: from an empty ledger, after N > 500 appends getLogs returns exactly
\* the entries of the 500 most recent calls, newest first: the oldest entry
\* goes first and only once 500 newer ones exist; after evt-0..evt-500 the
\* head is evt-500, the tail evt-1.
C3_KeepsMostRecent ==
    calls > MAX_LOGS =>
        /\ Ledger.items = [i \in 1..MAX_LOGS |-> AppendEntry(calls - i)]
        /\ calls = MAX_LOGS + 1 =>
              /\ Ledger.items[1].action = "evt-500"
              /\ Ledger.items[MAX_LOGS].action = "evt-1"

C3_Witness ==
    /\ calls = MAX_LOGS + 1
    /\ Ledger.items[1].action = "evt-500"
    /\ \A i \in 1..Len(Ledger.items) : Ledger.items[i].action # "evt-0"

\* C4 as stated: after every log call, getLogs shows the entry of that call
\* (same category, action and metadata) at index 0.
C4_Original == lastOp = "log" => HeadOrNone(Ledger.items) = newLog

\* C4 amended: after every log call that completed (it emitted its
\* notification), getLogs shows at index 0 the entry of that call as JSON
\* serialises it.
C4_NewEntryFirst ==
    (lastOp = "log" /\ trace # <<>>) =>
        HeadOrNone(Ledger.items) = StringifyItem(newLog)

C4_Witness ==
    /\ lastOp = "log"
    /\ trace # <<>>
    /\ newLog.metadata = "error"
    /\ Len(Ledger.items) >= 2

C6_PurgeIsLogged ==
    lastOp = "handleClear" =>
        /\ HasPurgeRecord(Ledger.items)
        /\ HasPurgeRecord(logs.items)

PurgePersistedThenRemoved ==
    /\ Len(trace) = 3
    /\ trace[1].e = "setItem" /\ trace[1].entry = newLog
    /\ trace[2] = Effect("dispatch", newLog, 0)
    /\ trace[3] = Effect("removeItem", NoLog, 0)

\* C7 as stated: clearLogs persists the purge record, notifies it, then
\* removes the key.
C7_Original == IsClearOp => PurgePersistedThenRemoved

\* C7 amended: clearLogs runs log first and removes the key afterwards
\* without a notification of its own; the purge record is persisted and
\* notified before the removal exactly when the log step does not fail (the
\* value read is a list and the write does not throw), otherwise the removal
\* is all that happens.
C7_LogThenRemove ==
    [][ IsClearOp' =>
          IF failure' # "write" /\ IsIterable(getLogs(storage, failure' = "read"))
          THEN PurgePersistedThenRemoved'
          ELSE trace' = <<Effect("removeItem", NoLog, 0)>> ]_vars

C7_Witness == lastOp = "handleClear" /\ PurgePersistedThenRemoved

\* C8: getLogs returns the empty sequence whenever the key is absent or
\* holds a string that is not the JSON text of a list of entries.
C8_MalformedReadsEmpty ==
    (storage = NoItem \/ Malformed(storage)) =>
        \A readFails \in BOOLEAN : getLogs(storage, readFails) = EmptyArray

\* C9: a log call on malformed persisted data (nothing failing in the call
\* itself) leaves exactly one entry, the new one.
C9_RecoversFromMalformed ==
    [][ ( /\ Malformed(storage)
          /\ lastOp' = "log"
          /\ failure' = "none"
          /\ newLog'.metadata # "circular" ) =>
        Ledger' = Value("array", <<StringifyItem(newLog')>>) ]_vars

\* C10: a log call never lets an exception escape, whatever the stored
\* value, the metadata and the persistence failure.
C10_LogNeverRaises == lastOp = "log" => ~raised

\* log calls that failed internally: unserialisable metadata, a failed write,
\* a stored value that cannot be spread
C10_Witness ==
    /\ lastOp = "log"
    /\ trace = <<>>
    /\ \/ newLog.metadata = "circular"
       \/ failure = "write"
       \/ ~IsIterable(Ledger)

Dispatches(tr) == SelectSeq(tr, LAMBDA x : x.e = "dispatch")

\* the log step of the last call could not complete: the value it read is
\* not a list, the entry does not serialise, or the write threw
LogStepFails(saved, entry, fail) ==
    \/ fail = "write"
    \/ entry.metadata = "circular"
    \/ ~IsIterable(getLogs(saved, fail = "read"))

\* C11: when the write of a log call fails (JSON.stringify or setItem
\* throws) the stored value is what it was before the call and no
\* notification is emitted.
C11_FailedWriteNoEffect ==
    [][ ( /\ lastOp' = "log"
          /\ (failure' = "write" \/ newLog'.metadata = "circular") ) =>
        (storage' = storage /\ trace' = <<>>) ]_vars

C11_Witness ==
    /\ lastOp = "log"
    /\ failure = "write"
    /\ trace = <<>>
    /\ Len(Ledger.items) >= 1

\* C12 as stated: every log call emits exactly one notification carrying
\* its entry, whether or not persistence succeeded.
C12_Original ==
    lastOp = "log" => Dispatches(trace) = <<Effect("dispatch", newLog, 0)>>

\* C12 amended: a log call emits exactly one notification, carrying its
\* entry, when its read-modify-write completes, and none when it fails.
C12_OneNotificationIfPersisted ==
    [][ lastOp' = "log" =>
          IF LogStepFails(storage, newLog', failure')
          THEN Dispatches(trace') = <<>>
          ELSE Dispatches(trace') = <<Effect("dispatch", newLog', 0)>> ]_vars

C12_Witness ==
    /\ lastOp = "log"
    /\ newLog.metadata = "plain"
    /\ Dispatches(trace) = <<Effect("dispatch", newLog, 0)>>

KeptOrEvicted(before, after) ==
    \/ after = before
    \/ /\ after # <<>>
       /\ Tail(after) = Take(before, MAX_LOGS - 1)

\* C14 as stated: across any call but clearLogs, the entries of the store
\* keep their fields and their relative order, and leave only by eviction.
C14_Original ==
    [][ ~IsClearOp' => KeptOrEvicted(Ledger.items, Ledger'.items) ]_vars

\* C14 amended: the same, except that a log call whose read of the store
\* fails falls back to an empty list and overwrites the store with the new
\* entry alone.
C14_ImmutableInOrder ==
    [][ ~IsClearOp' =>
          \/ KeptOrEvicted(Ledger.items, Ledger'.items)
          \/ /\ lastOp' = "log"
             /\ failure' = "read"
             /\ Ledger'.items = <<StringifyItem(newLog')>> ]_vars

\* an append to a full ledger: the oldest entry is gone, the others kept
C14_Witness ==
    /\ lastOp = "log"
    /\ failure = "none"
    /\ trace # <<>>
    /\ Len(Ledger.items) = MAX_LOGS
    /\ Ledger.items[MAX_LOGS].action = "old-1"
    /\ Ledger.items[3].action = "old-498"

\* C15: the ids of the entries getLogs returns are pairwise distinct.
C15_UniqueIds ==
    IsEntryList(Ledger.items) =>
        \A i, j \in 1..Len(Ledger.items) :
            i # j => Ledger.items[i].id # Ledger.items[j].id

NonIncreasing(items) ==
    \A i \in 1..(Len(items) - 1) : items[i].timestamp >= items[i + 1].timestamp

\* C16 as stated: in every reachable state the timestamps of the stored
\* entries are non-increasing from index 0 on, so the default sort
\* (timestamp, descending) shows them in the store's order.
C16_Original ==
    IsEntryList(Ledger.items) =>
        /\ NonIncreasing(Ledger.items)
        /\ sortLogs(Ledger.items, "timestamp", "desc") = Ledger.items

\* C16 amended: an append whose timestamp is not earlier than that of the
\* current head keeps the stored timestamps non-increasing and the default
\* sort equal to the store's order; Date.now() can step back between two
\* appends, and then it does not.
C16_ReverseChronological ==
    [][ ( /\ lastOp' = "log"
          /\ IsEntryList(Ledger.items)
          /\ NonIncreasing(Ledger.items)
          /\ (Ledger.items = <<>> \/ newLog'.timestamp >= Ledger.items[1].timestamp) ) =>
        ( /\ NonIncreasing(Ledger'.items)
          /\ sortLogs(Ledger'.items, "timestamp", "desc") = Ledger'.items ) ]_vars

\* two entries of the same millisecond on top of an older one
C16_Witness ==
    /\ lastOp = "log"
    /\ Len(Ledger.items) >= 3
    /\ IsEntryList(Ledger.items)
    /\ Ledger.items[1].timestamp = Ledger.items[2].timestamp
    /\ Ledger.items[2].timestamp > Ledger.items[3].timestamp

\* C17: reloading the persisted JSON in a fresh session yields the sequence
\* that was appended, entry for entry and field for field, metadata
\* included: after an append that completed, getLogs returns exactly the
\* list [newLog, ...logs].slice(0, 500) that was serialised.
C17_RoundTrip ==
    [][ ( /\ lastOp' = "log"
          /\ failure' = "none"
          /\ Dispatches(trace') # <<>>
          /\ IsEntryList(Ledger.items) ) =>
        Ledger'.items = Take(<<newLog'>> \o Ledger.items, MAX_LOGS) ]_vars

Filtered == filteredLogs(logs.items, filter, searchQuery)
Shown == sortedAndFilteredLogs(logs.items, filter, searchQuery, sortConfig)

CategoryMatches(x) == filter = "ALL" \/ x.category = filter

\* the query occurs in a text, whatever the case of either
Occurs(text) == includes(toLowerCase(text), toLowerCase(Chars[searchQuery]))

\* C19 as stated: the filtered list is exactly the snapshot entries of the
\* selected category whose action text or serialised metadata contains the
\* query, case-insensitively; no other field makes an entry match.
C19_Original ==
    mounted =>
        Filtered = SelectSeq(logs.items,
            LAMBDA x : /\ CategoryMatches(x)
                       /\ \/ searchQuery = ""
                          \/ Occurs(Chars[x.action])
                          \/ x.metadata # "undefined" /\ Occurs(MetadataJson[x.metadata]))

\* C19 amended: ... whose action text, category name or serialised metadata
\* contains the query, case-insensitively.
C19_FilterAndSearch ==
    mounted =>
        Filtered = SelectSeq(logs.items,
            LAMBDA x : /\ CategoryMatches(x)
                       /\ \/ searchQuery = ""
                          \/ Occurs(Chars[x.action])
                          \/ Occurs(Chars[x.category])
                          \/ x.metadata # "undefined" /\ Occurs(MetadataJson[x.metadata]))

\* a search that one entry matches by its action and another by its category
C19_Witness ==
    /\ mounted
    /\ searchQuery = "sec"
    /\ filter = "ALL"
    /\ Len(Filtered) = 2

Count(items, x) == Cardinality({i \in 1..Len(items) : items[i] = x})

\* the key the list is sorted by, strings lower-cased
SortValue(x) ==
    IF sortConfig.key = "timestamp" THEN x.timestamp
    ELSE toLowerCase(Chars[x[sortConfig.key]])

Before(a, b) ==
    IF sortConfig.key = "timestamp" THEN a < b ELSE StringLess(a, b)

\* C20: the list shown is the filtered list sorted by the selected key in
\* the selected direction, strings compared case-insensitively, with no
\* entry added, dropped or altered; handleSort selects ascending unless its
\* key is already selected ascending, and then descending.
C20_Sorted ==
    /\ [](mounted =>
            /\ Len(Shown) = Len(Filtered)
            /\ \A i \in 1..Len(Filtered) :
                  Count(Shown, Filtered[i]) = Count(Filtered, Filtered[i])
            /\ \A i, j \in 1..Len(Shown) :
                  i < j =>
                     IF sortConfig.direction = "asc"
                     THEN ~Before(SortValue(Shown[j]), SortValue(Shown[i]))
                     ELSE ~Before(SortValue(Shown[i]), SortValue(Shown[j])))
    /\ [][ lastOp' = "handleSort" =>
             sortConfig'.direction =
                IF sortConfig'.key = sortConfig.key /\ sortConfig.direction = "asc"
                THEN "desc" ELSE "asc" ]_vars

\* sorted by action, ascending: apple before Pay before Zed
C20_Witness ==
    /\ mounted
    /\ sortConfig = [key |-> "action", direction |-> "asc"]
    /\ Len(Shown) = 4
    /\ Shown[1].action = "apple"
    /\ Shown[2].action = "Pay"
    /\ Shown[4].action = "Zed"

\* the page of the list that is shown, and the number of pages
Paginated == paginatedLogs(Shown, currentPage)
TotalPages == totalPages(Len(Shown))

\* the pages 1..n of a list, one after the other
RECURSIVE PagesJoined(_, _)
PagesJoined(items, n) ==
    IF n = 0 THEN <<>> ELSE PagesJoined(items, n - 1) \o paginatedLogs(items, n)

\* C21: page p shows exactly the entries at positions (p-1)*20 .. p*20-1
\* (counted from 0) of the filtered and sorted list, the pages 1..totalPages
\* are non-empty and joined give that list, and every change of filter,
\* search query or sort configuration sets the current page to 1.
C21_Pagination ==
    /\ [](mounted =>
            LET shown == Shown
                first == (currentPage - 1) * PAGE_SIZE
                rest == Len(shown) - first
                size == IF rest < 0 THEN 0 ELSE IF rest < PAGE_SIZE THEN rest ELSE PAGE_SIZE
                pages == totalPages(Len(shown))
            IN  /\ paginatedLogs(shown, currentPage) = [i \in 1..size |-> shown[first + i]]
                /\ PagesJoined(shown, pages) = shown
                /\ \A p \in 1..pages : paginatedLogs(shown, p) # <<>>)
    /\ [][ (filter' # filter \/ searchQuery' # searchQuery \/ sortConfig' # sortConfig)
              => currentPage' = 1 ]_vars

\* the last, short page of a list of three pages
C21_Witness ==
    /\ mounted
    /\ currentPage = 3
    /\ TotalPages = 3
    /\ Len(Paginated) = 5

\* C22 as stated: while the view is mounted, after each log call and after
\* handleClear its snapshot equals what getLogs returns.
C22_Original ==
    (mounted /\ lastOp \in {"log", "handleClear"}) => logs = Ledger

\* C22 amended: after each notification the view handled and after
\* handleClear, the snapshot equals what getLogs returns, provided the
\* handler's own read of the store did not fail.
C22_SnapshotIfReadable ==
    ( /\ mounted
      /\ failure # "read"
      /\ \/ lastOp = "log" /\ Dispatches(trace) # <<>>
         \/ lastOp = "handleClear" )
    => logs = Ledger

\* a notification refreshed the snapshot with the entry just stored
C22_Witness ==
    /\ mounted
    /\ lastOp = "log"
    /\ Dispatches(trace) # <<>>
    /\ failure = "none"
    /\ Len(logs.items) >= 1
    /\ logs.items[1] = StringifyItem(newLog)

\* C23: in every state of the mounted view
\* 1 <= currentPage <= max(1, totalPages).
C23_ValidPage ==
    mounted =>
        /\ 1 <= currentPage
        /\ currentPage <= (IF TotalPages > 1 THEN TotalPages ELSE 1)

\* C24: backgroundLogsCount is 0 whenever currentPage is 1; a notification
\* handled while currentPage is not 1 adds one to it; going to page 1 or
\* changing filter, search or sort sets it to 0; nothing else changes it.
C24_BackgroundCount ==
    /\ [](currentPage = 1 => backgroundLogsCount = 0)
    /\ [][ LET notified == mounted /\ calls' # calls /\ Dispatches(trace') # <<>>
           IN  IF notified /\ currentPage # 1
               THEN backgroundLogsCount' = backgroundLogsCount + 1
               ELSE IF currentPage' = 1 \/ viewVars' # viewVars
                    THEN backgroundLogsCount' = 0
                    ELSE backgroundLogsCount' = backgroundLogsCount ]_vars

\* two appends arrived while the user was on the last page
C24_Witness ==
    /\ mounted
    /\ currentPage = 3
    /\ backgroundLogsCount = 2

MockActionTexts == {MOCK_ACTIONS[k][2] : k \in 1..Len(MOCK_ACTIONS)}

Withdrawn == SelectSeq(transactions, LAMBDA tx : tx.kind = "TX")

\* C26: globalBalance >= 0 in every state, and a purchase is made only when
\* the balance covers its price.
C26_BalanceNeverNegative ==
    /\ [](globalBalance >= 0)
    /\ [][ (Len(transactions') > Len(transactions) /\ transactions'[1].kind = "PURCHASE")
              => globalBalance >= transactions'[1].amount ]_vars

\* C27: there is one deposit (one DEP transaction, one balance increase) for
\* each payment that was credited, and a payment whose checkout the user
\* cancelled before that is never credited.
C27_CreditedOnceUnlessCancelled ==
    /\ Len(SelectSeq(transactions, LAMBDA tx : tx.kind = "DEP"))
          = Cardinality({i \in 1..Len(payments) : payments[i].step = "credited"})
    /\ globalBalance =
          INITIAL_BALANCE
          + SumAmounts(SelectSeq(transactions, LAMBDA tx : tx.kind = "DEP"))
          - SumAmounts(SelectSeq(transactions, LAMBDA tx : tx.kind # "DEP"))
    /\ \A i \in 1..Len(payments) :
          payments[i].cancelled => payments[i].step # "credited"

\* the parts of C28
C28_AmountWithinLimit ==
    \A i \in 1..Len(Withdrawn) :
        Withdrawn[i].amount > 0 /\ Withdrawn[i].amount <= TRANSACTION_LIMIT

C28_DestinationListed ==
    \A i \in 1..Len(Withdrawn) :
        AddressFormat[Withdrawn[i].address] # "" /\ Withdrawn[i].listed

C28_DailySum ==
    \A i \in 1..Len(Withdrawn) :
        SumAmounts(SelectSeq(Withdrawn,
                             LAMBDA tx : /\ tx.timestamp <= Withdrawn[i].timestamp
                                         /\ tx.timestamp > Withdrawn[i].timestamp - DAY))
            <= DAILY_LIMIT

C28_OnlyWithdrawalsCount ==
    activeView = "WITHDRAW" =>
        dailyUsage = SumAmounts(SelectSeq(Withdrawn, LAMBDA tx : tx.timestamp > now - DAY))

\* C28: every recorded withdrawal has an amount in (0, TRANSACTION_LIMIT], a
\* well-formed destination that is whitelisted when it is recorded, the
\* withdrawals of any 24 h sum to at most DAILY_LIMIT, and the daily usage
\* counts withdrawals only.
C28_WithdrawalLimits ==
    /\ C28_AmountWithinLimit
    /\ C28_DestinationListed
    /\ C28_DailySum
    /\ C28_OnlyWithdrawalsCount

C30_OnePlayback ==
    /\ Cardinality(Playing) <= 1
    /\ \A i \in Playing : ~speaks[i].stale

====
